---- MODULE Spec2Model ----
(***************************************************************************)
(* Model of the logging core (package log: logger, HandleEntry,            *)
(* RegisterHandler, the leveled facade) and of the console handler         *)
(* (package console: New, SetBuffersAndWorkers, Run, handleLog, the        *)
(* default formatter), as found in src/log.go.                             *)
(*                                                                         *)
(* The Entry type, newEntry, Entry.Consumed and Level.String are used by   *)
(* src/log.go but defined elsewhere in the repository; they are modelled   *)
(* from the specification (sections 3, 4.3 and 4.5).                       *)
(*                                                                         *)
(* Handlers are created, configured and registered one after the other,   *)
(* before the producers start calling the facade: the routing table is a   *)
(* plain Go map, and a registration concurrent with a dispatch is a data   *)
(* race that the documented usage (spec 4.2, 5) excludes.  The goroutines  *)
(* of one channel run the same code on the same channel, so the one that   *)
(* receives an entry is taken to be the lowest-numbered blocked one.       *)
(*                                                                         *)
(* The first console is given a formatter factory of the caller, whose     *)
(* Formatter writes to the entry it is handed; the consoles after it are   *)
(* given a writer whose first Write calls return an error.                 *)
(***************************************************************************)
EXTENDS Integers, Sequences, FiniteSets, TLC

(***************************************************************************)
(* Bounds of the model                                                     *)
(***************************************************************************)
NumProducers == 2
MaxCalls == 2
MaxHandlers == 2
MaxBuffer == 1
MaxWorkers == 2
MaxWriteErrors == 1

Producers == 1..NumProducers

(***************************************************************************)
(* Levels (defaultColors, src/log.go:290-300) and the inputs of the model  *)
(***************************************************************************)
DebugLevel == "DEBUG"
TraceLevel == "TRACE"
InfoLevel == "INFO"
NoticeLevel == "NOTICE"
WarnLevel == "WARN"
ErrorLevel == "ERROR"
PanicLevel == "PANIC"
AlertLevel == "ALERT"
FatalLevel == "FATAL"

Levels ==
  {DebugLevel, TraceLevel, InfoLevel, NoticeLevel, WarnLevel, ErrorLevel,
   PanicLevel, AlertLevel, FatalLevel}

\* the level lists handed to RegisterHandler: for the first handler that is
\* registered, and for the handlers registered after it (one of these lists
\* names no level)
RegLevelSeqs(ch) ==
  IF ch = 1
  THEN {<<InfoLevel, ErrorLevel>>,
        <<PanicLevel, FatalLevel, WarnLevel, WarnLevel>>}
  ELSE {<<ErrorLevel, FatalLevel>>, <<>>}

\* the (size, workers) pairs handed to SetBuffersAndWorkers: the consoles
\* created after the first are asked for zero workers only, when handlers
\* may already be registered for the Warn level
BufferWorkerPairs(c) ==
  IF c = 1 THEN {<<MaxBuffer, 0>>, <<MaxBuffer, MaxWorkers>>}
  ELSE {<<MaxBuffer, 0>>}

\* the writers handed to SetWriter: the first console keeps os.Stderr, whose
\* Write returns no error; the consoles created after it get a writer whose
\* first MaxWriteErrors Write calls return an error
Writers(c) == IF c = 1 THEN {} ELSE {"flaky"}

\* the formatter factories handed to SetFormatFunc: the first console gets a
\* factory whose Formatter overwrites the File of the entry it is handed
\* (CustomFile) before it formats it the default way; the consoles created
\* after it keep defaultFormatFunc
FormatFuncs(c) == IF c = 1 THEN {"custom"} ELSE {}

CustomFile == <<"x">>

\* the messages built by fmt.Sprint / fmt.Sprintf
Msgs == {"started"}

\* the fields built by F(key, value)
IntValue(n) == [kind |-> "int", n |-> n]
BoolValue(b) == [kind |-> "bool", n |-> IF b THEN 1 ELSE 0]
PortField == [Key |-> "port", Value |-> IntValue(8080)]
OkField == [Key |-> "ok", Value |-> BoolValue(TRUE)]
FieldVals == {PortField, OkField}

\* the field lists handed to WithFields
FieldSeqs == {<<PortField, OkField>>}

NoEntry ==
  [id |-> <<0, 0>>, addr |-> 0, Level |-> "", Message |-> "", Fields |-> <<>>,
   Timestamp |-> "", File |-> <<>>, Line |-> 0, ptr |-> FALSE]
NoExit == <<>>
NoBytes == <<>>

VARIABLES
  consoles,    \* the Console values created by New: buffer, numWorkers, ...
               \* and the arguments of its last SetBuffersAndWorkers call
  channels,    \* logger.channels: Level -> list of handler channels
  chans,       \* the channels made by Run: capacity and queued entries
  workers,     \* per channel, the handleLog goroutines: position and entry
  fbuf,        \* per channel and Formatter instance, its byte buffer b
  sink,        \* per channel, the calls of c.writer.Write, in order, each
               \* with the entry, the bytes and whether it returned an error
  fieldPool,   \* logger.fieldPool: how many of each Field value are pooled
  entryPool,   \* logger.entryPool: how many times each *Entry is pooled
  wg,          \* Entry.WG of each *Entry: the completion counter
  pc,          \* position of each producer
  cur,         \* the call each producer is executing
  calls,       \* the number of facade calls each producer has made
  traffic,     \* some producer has called the facade
  sent,        \* history: per channel, the entries in the order they entered
  acked,       \* history: per channel, the Consumed calls of each entry
  regLevels,   \* history: per channel, the levels it was registered with
  exitStatus,  \* the statuses exitFunc was called with: none, or one
  panicked     \* per producer, the value its panic carried

vars ==
  <<consoles, channels, chans, workers, fbuf, sink, fieldPool, entryPool, wg,
    pc, cur, calls, traffic, sent, acked, regLevels, exitStatus, panicked>>

Addrs == 1..NumProducers

NoCall ==
  [e |-> NoEntry, after |-> "idle", chs |-> <<>>, idx |-> 0, console |-> 0]

Init ==
  /\ consoles = <<>>
  /\ channels = [l \in {} |-> <<>>]
  /\ chans = <<>>
  /\ workers = <<>>
  /\ fbuf = <<>>
  /\ sink = <<>>
  /\ fieldPool = [f \in FieldVals |-> 0]
  /\ entryPool = [a \in Addrs |-> 0]
  /\ wg = [a \in Addrs |-> 0]
  /\ pc = [p \in Producers |-> "idle"]
  /\ cur = [p \in Producers |-> NoCall]
  /\ calls = [p \in Producers |-> 0]
  /\ traffic = FALSE
  /\ sent = <<>>
  /\ acked = <<>>
  /\ regLevels = <<>>
  /\ exitStatus = NoExit
  /\ panicked = [p \in Producers |-> ""]

\* the producer that also creates, configures and registers the handlers
MainProducer == CHOOSE p \in Producers : \A q \in Producers : p <= q

\* producer p is between newEntry and the end of HandleEntry
InHandleEntry(p) == pc[p] \in {"send", "wait", "reclaim"}

\* no producer is inside HandleEntry: the state in which the routing table
\* and the consoles may be written without a data race
Quiescent == \A p \in Producers : ~InHandleEntry(p)

(***************************************************************************)
(* package console: New, SetBuffersAndWorkers, Run                         *)
(***************************************************************************)
\* New(): buffer 0, numWorkers 1, writer os.Stderr, displayColor true,
\* fileDisplay Lshortfile, formatFunc defaultFormatFunc (gopath is the zero
\* value)
New ==
  /\ Quiescent
  /\ pc[MainProducer] = "idle"
  /\ ~traffic
  /\ Len(consoles) < MaxHandlers
  /\ \A c \in DOMAIN consoles : consoles[c].ran
  /\ consoles' =
       Append(consoles,
              [buffer |-> 0, numWorkers |-> 1, displayColor |-> TRUE,
               writer |-> "stderr", formatFunc |-> "default",
               fileDisplay |-> "short", gopath |-> <<>>,
               ran |-> FALSE, req |-> <<>>])
  /\ UNCHANGED <<channels, chans, workers, fbuf, sink, fieldPool, entryPool,
                 wg, pc, cur, calls, traffic, sent, acked, regLevels, exitStatus,
                 panicked>>

\* SetWriter(w), on a console that has just been created
SetWriter(c, w) ==
  /\ Quiescent
  /\ pc[MainProducer] = "idle"
  /\ ~traffic
  /\ ~consoles[c].ran
  /\ consoles[c].req = <<>>
  /\ consoles[c].writer = "stderr"
  /\ consoles[c].formatFunc = "default"
  /\ consoles' = [consoles EXCEPT ![c].writer = w]
  /\ UNCHANGED <<channels, chans, workers, fbuf, sink, fieldPool, entryPool,
                 wg, pc, cur, calls, traffic, sent, acked, regLevels, exitStatus,
                 panicked>>

\* SetFormatFunc(fn), after SetWriter on the consoles that get a writer
SetFormatFunc(c, fn) ==
  /\ Quiescent
  /\ pc[MainProducer] = "idle"
  /\ ~traffic
  /\ ~consoles[c].ran
  /\ consoles[c].req = <<>>
  /\ Writers(c) # {} => consoles[c].writer \in Writers(c)
  /\ consoles[c].formatFunc = "default"
  /\ consoles' = [consoles EXCEPT ![c].formatFunc = fn]
  /\ UNCHANGED <<channels, chans, workers, fbuf, sink, fieldPool, entryPool,
                 wg, pc, cur, calls, traffic, sent, acked, regLevels, exitStatus,
                 panicked>>

\* console c has been given its writer and its formatter factory
Configured(c) ==
  /\ Writers(c) # {} => consoles[c].writer \in Writers(c)
  /\ FormatFuncs(c) # {} => consoles[c].formatFunc \in FormatFuncs(c)

\* the console that was run to make channel ch: the consoles are registered
\* in the order they are created, each once
ConsoleOf(ch) == consoles[ch]

\* Run(): the loop "for i := 0; i <= int(c.numWorkers); i++" starts one
\* handleLog goroutine per iteration
NumGoroutines(c) == c.numWorkers + 1

\* faulty variant of FormatterOf: one Formatter shared by the goroutines
SharedFormatter(w) == 1

\* handleLog: "formatter := c.formatFunc()", one Formatter (and one buffer b)
\* per goroutine; the result names the Formatter instance goroutine w uses
FormatterOf(w) == w

\* Run(): make(chan *log.Entry, c.buffer)
MakeChan(c) == [cap |-> c.buffer, q |-> <<>>]

\* the value of $GOPATH, and the separator and "src" Run appends to it
Getenv == <<"/", "g">>
SrcDir == <<"/", "s", "r", "c", "/">>

\* Run(): with Llongfile, c.gopath is $GOPATH followed by /src/, or blank
RunGopath(c) ==
  IF c.fileDisplay = "long"
  THEN (IF Len(Getenv) # 0 THEN Getenv \o SrcDir ELSE Getenv)
  ELSE c.gopath

\* faulty variant of RegisterLevels: the loop is left after the first level
RegisterFirstLevel(table, levels, ch) ==
  IF levels = <<>> THEN table
  ELSE LET level == Head(levels)
           old == IF level \in DOMAIN table THEN table[level] ELSE <<>>
       IN [l \in DOMAIN table \cup {level} |->
             IF l = level THEN Append(old, ch) ELSE table[l]]

\* faulty variant of RegisterLevels: ch is put at the front of the lists
RECURSIVE RegisterLevelsInFront(_, _, _)
RegisterLevelsInFront(table, levels, ch) ==
  IF levels = <<>> THEN table
  ELSE LET level == Head(levels)
           old == IF level \in DOMAIN table THEN table[level] ELSE <<>>
           t2 == [l \in DOMAIN table \cup {level} |->
                    IF l = level THEN <<ch>> \o old ELSE table[l]]
       IN RegisterLevelsInFront(t2, Tail(levels), ch)

\* RegisterHandler: the loop over levels, appending ch to each level's list
RECURSIVE RegisterLevels(_, _, _)
RegisterLevels(table, levels, ch) ==
  IF levels = <<>> THEN table
  ELSE LET level == Head(levels)
           ok == level \in DOMAIN table
           old == IF ok THEN table[level] ELSE <<>>
           t2 == [l \in DOMAIN table \cup {level} |->
                    IF l = level THEN Append(old, ch) ELSE table[l]]
       IN RegisterLevels(t2, Tail(levels), ch)

\* RegisterHandler(handler, levels...): handler.Run() once, then the loop
RegisterHandler(c, levels) ==
  /\ Quiescent
  /\ pc[MainProducer] = "idle"
  /\ ~traffic
  /\ ~consoles[c].ran
  /\ Configured(c)
  /\ LET ch == Len(chans) + 1
         n == NumGoroutines(consoles[c])
     IN /\ chans' = Append(chans, MakeChan(consoles[c]))
        /\ workers' =
             Append(workers, [w \in 1..n |-> [pc |-> "recv", e |-> NoEntry]])
        /\ fbuf' = Append(fbuf, [w \in 1..n |-> NoBytes])
        /\ channels' = RegisterLevels(channels, levels, ch)
        /\ sent' = Append(sent, <<>>)
        /\ sink' = Append(sink, <<>>)
        /\ acked' = Append(acked, [id \in {} |-> 0])
        /\ regLevels' = Append(regLevels, levels)
        /\ consoles' = [consoles EXCEPT ![c].ran = TRUE,
                                        ![c].gopath = RunGopath(consoles[c])]
  /\ UNCHANGED <<fieldPool, entryPool, wg, pc, cur, calls, traffic,
                 exitStatus, panicked>>

(***************************************************************************)
(* package console: the default formatter                                  *)
(***************************************************************************)
\* Level.String(): the stable display name of a level
LevelString(l) == l

\* the per-level escape sequences (defaultColors) and log.Reset, opaque
Color(l) == "<" \o l \o ">"
Reset == "<reset>"

\* "for i = 0; i < 6-len(lvl); i++ { b = append(b, space) }"
Padding(lvl) == [i \in 1..(6 - Len(lvl)) |-> " "]

\* strconv.AppendInt / AppendUint, base 10
Digit(d) == CASE d = 0 -> "0" [] d = 1 -> "1" [] d = 2 -> "2" [] d = 3 -> "3"
              [] d = 4 -> "4" [] d = 5 -> "5" [] d = 6 -> "6" [] d = 7 -> "7"
              [] d = 8 -> "8" [] d = 9 -> "9"

RECURSIVE AppendUint(_, _)
AppendUint(b, n) ==
  IF n < 10 THEN Append(b, Digit(n))
  ELSE Append(AppendUint(b, n \div 10), Digit(n % 10))

AppendInt(b, n) ==
  IF n < 0 THEN AppendUint(Append(b, "-"), 0 - n) ELSE AppendUint(b, n)

\* strconv.AppendBool
AppendBool(b, v) == Append(b, IF v.n = 1 THEN "true" ELSE "false")

\* the type switch on f.Value
AppendValue(b, v) ==
  CASE v.kind = "int" -> AppendInt(b, v.n)
    [] v.kind = "bool" -> AppendBool(b, v)

\* "for _, f := range e.Fields": space, [color] key [reset], '=', value
RECURSIVE AppendFields(_, _, _, _)
AppendFields(b, fields, colored, lvl) ==
  IF fields = <<>> THEN b
  ELSE LET f == Head(fields)
           key == IF colored THEN <<" ", Color(lvl), f.Key, Reset, "=">>
                  ELSE <<" ", f.Key, "=">>
       IN AppendFields(AppendValue(b \o key, f.Value), Tail(fields), colored,
                       lvl)

\* the positions of file the loop "for i = len(file) - 1; i > 0; i--"
\* visits (counted from 1) that hold a '/'
SlashesSeen(file) == {k \in 2..Len(file) : file[k] = "/"}

\* Lshortfile: "file = file[i+1:]" at the first '/' the loop meets
ShortFile(file) ==
  IF SlashesSeen(file) = {} THEN file
  ELSE LET k == CHOOSE i \in SlashesSeen(file) :
                  \A j \in SlashesSeen(file) : j <= i
       IN SubSeq(file, k + 1, Len(file))

\* otherwise: "file = file[len(c.gopath):]"
LongFile(file, gopath) == SubSeq(file, Len(gopath) + 1, Len(file))

\* the file part of the location
DisplayFile(c, e) ==
  IF c.fileDisplay = "short" THEN ShortFile(e.File)
  ELSE LongFile(e.File, c.gopath)

\* the location part, present when e.Line != 0: file, ':', line, space
Location(e, file) ==
  IF e.Line = 0 THEN <<>> ELSE AppendInt(file \o <<":">>, e.Line) \o <<" ">>

\* one line with file as the file part of its location, colored or plain,
\* as the sequence of the pieces appended to b
FormatLine(colored, e, file) ==
  LET lvl == LevelString(e.Level)
      head == IF colored
              THEN <<e.Timestamp, " ", Color(e.Level)>> \o Padding(lvl)
                     \o <<lvl, Reset, " ">>
              ELSE <<e.Timestamp, " ">> \o Padding(lvl) \o <<lvl, " ">>
      body == head \o Location(e, file) \o <<e.Message>>
  IN Append(AppendFields(body, e.Fields, colored, e.Level), "\n")

\* the Formatter returned by defaultFormatFunc of console c, applied to e
Format(c, e) == FormatLine(c.displayColor, e, DisplayFile(c, e))

(***************************************************************************)
(* package log: the pools, newEntry, F                                     *)
(***************************************************************************)
\* the *Entry a producer holds between newEntry and entryPool.Put
Live == {cur[p].e.addr : p \in {q \in Producers : InHandleEntry(q)}}

\* entryPool.Get(): a pooled *Entry, or New() when the pool is empty
EntryPoolGet ==
  LET pooled == {a \in Addrs : entryPool[a] > 0}
      free == {a \in Addrs : a \notin Live}
  IN IF pooled # {} THEN pooled
     ELSE {a \in free : \A b \in free : a <= b}

\* newEntry(level, message, fields): an Entry from the pool, stamped;
\* the facade captures no caller location
newEntry(id, addr, level, message, fields) ==
  [id |-> id, addr |-> addr, Level |-> level, Message |-> message,
   Fields |-> fields, Timestamp |-> "T", File |-> <<>>, Line |-> 0,
   ptr |-> FALSE]

\* fieldPool.Get() in F(key, value), once per field: each Get takes a pooled
\* Field when there is one; the results are the pools that can remain
RECURSIVE FieldPoolGet(_, _)
FieldPoolGet(pool, n) ==
  LET pooled == {f \in FieldVals : pool[f] > 0}
  IN IF n = 0 \/ pooled = {} THEN {pool}
     ELSE UNION {FieldPoolGet([pool EXCEPT ![f] = @ - 1], n - 1) : f \in pooled}

\* faulty variant of FieldPoolPut: only the first field is put back
FieldPoolPutFirst(pool, fields) ==
  IF fields = <<>> THEN pool ELSE [pool EXCEPT ![Head(fields)] = @ + 1]

\* "for _, f := range e.Fields { l.fieldPool.Put(f) }"
RECURSIVE FieldPoolPut(_, _)
FieldPoolPut(pool, fields) ==
  IF fields = <<>> THEN pool
  ELSE FieldPoolPut([pool EXCEPT ![Head(fields)] = @ + 1], Tail(fields))

\* l.entryPool.Put(e)
EntryPoolPut(pool, addr) == [pool EXCEPT ![addr] = @ + 1]

(***************************************************************************)
(* package log: the leveled facade and the start of HandleEntry            *)
(***************************************************************************)
\* the number of facade calls made so far by producers 1..n
RECURSIVE TotalCalls(_)
TotalCalls(n) == IF n = 0 THEN 0 ELSE calls[n] + TotalCalls(n - 1)

\* the producers are numbered in the order of their first call
Started(p) == IF p = 1 THEN TRUE ELSE calls[p - 1] > 0

\* faulty variant of WGAdd: the barrier is not armed
WGAddNone(counter, n) == counter

\* faulty variant of WGAdd: the barrier is armed for a single completion
WGAddOne(counter, n) == counter + 1

\* "e.WG.Add(len(channels))"
WGAdd(counter, n) == counter + n

\* "channels, ok := l.channels[e.Level]"
Lookup(level) ==
  IF level \in DOMAIN channels THEN [ok |-> TRUE, channels |-> channels[level]]
  ELSE [ok |-> FALSE, channels |-> <<>>]

\* the common part of the facade methods, by producer p:
\* "e := newEntry(level, msg, fields); l.HandleEntry(e)" up to the first send:
\* the lookup and, when ok, "e.WG.Add(len(channels))" and "entry := *e".
\* after names what the method does once HandleEntry has returned
StartCall(p, level, msg, fields, after, c) ==
  /\ pc[p] = "idle"
  /\ TotalCalls(NumProducers) < MaxCalls
  /\ Started(p)
  /\ \E addr \in EntryPoolGet : \E fp \in FieldPoolGet(fieldPool, Len(fields)) :
       LET r == Lookup(level)
       IN /\ entryPool' = [entryPool EXCEPT ![addr] = IF @ > 0 THEN @ - 1 ELSE 0]
          /\ fieldPool' = fp
          /\ cur' = [cur EXCEPT ![p] =
                       [e |-> newEntry(<<p, calls[p] + 1>>, addr, level, msg,
                                       fields),
                        after |-> after, chs |-> r.channels, idx |-> 1,
                        console |-> c]]
          /\ wg' = IF r.ok THEN [wg EXCEPT ![addr] = WGAdd(@, Len(r.channels))]
                   ELSE wg
          /\ pc' = [pc EXCEPT ![p] =
                      IF ~r.ok THEN "reclaim"
                      ELSE IF Len(r.channels) > 0 THEN "send" ELSE "wait"]
  /\ calls' = [calls EXCEPT ![p] = @ + 1]
  /\ traffic' = (traffic \/ after # "setworkers")
  /\ UNCHANGED <<channels, chans, workers, fbuf, sink, sent, acked, regLevels,
                 exitStatus, panicked>>

\* Debug / Debugf
Debug(p, msg) ==
  /\ StartCall(p, DebugLevel, msg, <<>>, "idle", 0)
  /\ UNCHANGED consoles

\* Info / Infof
Info(p, msg) ==
  /\ StartCall(p, InfoLevel, msg, <<>>, "idle", 0)
  /\ UNCHANGED consoles

\* Warn / Warnf
Warn(p, msg) ==
  /\ StartCall(p, WarnLevel, msg, <<>>, "idle", 0)
  /\ UNCHANGED consoles

\* Error / Errorf
Error(p, msg) ==
  /\ StartCall(p, ErrorLevel, msg, <<>>, "idle", 0)
  /\ UNCHANGED consoles

\* Fatal / Fatalf: the entry is built at FatalLevel, exitFunc(1) follows
Fatal(p, msg) ==
  /\ StartCall(p, FatalLevel, msg, <<>>, "exit", 0)
  /\ UNCHANGED consoles

\* faulty variant of PanicEntryLevel: the entry is built at the Panic level
PanicAtPanicLevel == PanicLevel

\* the level Panic / Panicf build their entry at
PanicEntryLevel == ErrorLevel

\* Panic / Panicf: panic(s) follows HandleEntry
Panic(p, msg) ==
  /\ StartCall(p, PanicEntryLevel, msg, <<>>, "panic", 0)
  /\ UNCHANGED consoles

\* WithFields(F(k, v), ...): an Info entry with an empty message and the
\* fields, handed to HandleEntry
WithFields(p, fields) ==
  /\ StartCall(p, InfoLevel, "", fields, "idle", 0)
  /\ UNCHANGED consoles

\* the status Fatal / Fatalf hand to exitFunc
ExitCode == 1

\* exitFunc(1), after HandleEntry has returned
Exit(p) ==
  /\ pc[p] = "exit"
  /\ exitStatus' = <<ExitCode>>
  /\ pc' = [pc EXCEPT ![p] = "exited"]
  /\ UNCHANGED <<consoles, channels, chans, workers, fbuf, sink, fieldPool,
                 entryPool, wg, cur, calls, traffic, sent, acked, regLevels,
                 panicked>>

\* panic(s), after HandleEntry has returned
RaisePanic(p) ==
  /\ pc[p] = "panic"
  /\ panicked' = [panicked EXCEPT ![p] = cur[p].e.Message]
  /\ pc' = [pc EXCEPT ![p] = "panicked"]
  /\ UNCHANGED <<consoles, channels, chans, workers, fbuf, sink, fieldPool,
                 entryPool, wg, cur, calls, traffic, sent, acked, regLevels,
                 exitStatus>>

(***************************************************************************)
(* package log: HandleEntry, the sends, the wait and the reclamation       *)
(***************************************************************************)
\* the position of a producer after its idx-th send
AfterSend(p) ==
  [pc EXCEPT ![p] = IF cur[p].idx = Len(cur[p].chs) THEN "wait" ELSE "send"]

\* the goroutines of channel ch blocked in "for e = range entries"
Blocked(ch) == {w \in DOMAIN workers[ch] : workers[ch][w].pc = "recv"}

\* the goroutine that receives the next entry of ch, 0 when none is blocked
Receiver(ch) ==
  IF Blocked(ch) = {} THEN 0
  ELSE CHOOSE w \in Blocked(ch) : \A v \in Blocked(ch) : w <= v

\* faulty variant of NextStep: e.Consumed() is not called
NextStepNoSignal(step) ==
  CASE step = "format" -> "write"
    [] step = "write" -> "recv"
    [] step = "consumed" -> "recv"

\* faulty variant of NextStep: e.Consumed() is called before the write
NextStepSignalFirst(step) ==
  CASE step = "format" -> "consumed"
    [] step = "consumed" -> "write"
    [] step = "write" -> "recv"

\* the body of "for e = range entries" after the receive: format, write,
\* e.Consumed(), receive again
NextStep(step) ==
  CASE step = "format" -> "write"
    [] step = "write" -> "consumed"
    [] step = "consumed" -> "recv"

\* the entry a goroutine of ch holds once its Formatter has run on e
Handled(ch, e) ==
  IF ConsoleOf(ch).formatFunc = "custom" THEN [e EXCEPT !.File = CustomFile]
  ELSE e

\* the entries of the producers once a Formatter of ch has run on e: a write
\* through a pointer to the entry of a producer lands in that entry
Stored(c, ch, e) ==
  [p \in Producers |->
     IF e.ptr /\ c[p].e.addr = e.addr THEN [c[p] EXCEPT !.e = Handled(ch, @)]
     ELSE c[p]]

\* goroutine w of ch has received e: "b = formatter(e)", the Formatter of w
\* fills its buffer
Formatted(ch, w, e) ==
  /\ workers' = [workers EXCEPT ![ch][w] =
                   [pc |-> NextStep("format"), e |-> Handled(ch, e)]]
  /\ fbuf' = [fbuf EXCEPT ![ch][FormatterOf(w)] =
                Format(ConsoleOf(ch), Handled(ch, e))]

\* faulty variant of Deref: the handlers are handed the *Entry itself
NoDeref(e) == [e EXCEPT !.ptr = TRUE]

\* "entry := *e": the value sent on the channels (HandlerChannels is
\* []chan<- Entry) is a copy of the Entry, not a pointer to it
Deref(e) == [e EXCEPT !.ptr = FALSE]

\* faulty variant of Enqueue: the entry sent jumps the queue
EnqueueFront(q, e) == <<e>> \o q

\* a channel is first in, first out: an entry sent joins the end
Enqueue(q, e) == Append(q, e)

\* faulty variant of Target: the routing list is walked from its end
TargetFromEnd(chs, idx) == chs[Len(chs) + 1 - idx]

\* "for _, ch := range channels": the channel of the idx-th iteration
Target(chs, idx) == chs[idx]

\* "ch <- entry" on a channel with room in its buffer
SendBuffered(p) ==
  /\ pc[p] = "send"
  /\ LET ch == Target(cur[p].chs, cur[p].idx)
     IN /\ Len(chans[ch].q) < chans[ch].cap
        /\ chans' = [chans EXCEPT ![ch].q = Enqueue(@, Deref(cur[p].e))]
        /\ sent' = [sent EXCEPT ![ch] = Enqueue(@, Deref(cur[p].e))]
  /\ cur' = [cur EXCEPT ![p].idx = @ + 1]
  /\ pc' = AfterSend(p)
  /\ UNCHANGED <<consoles, channels, workers, fbuf, sink, fieldPool, entryPool,
                 wg, calls, traffic, acked, regLevels, exitStatus, panicked>>

\* "ch <- entry" on an unbuffered channel: handed to a goroutine that is
\* blocked in "for e = range entries", which formats it
SendUnbuffered(p) ==
  /\ pc[p] = "send"
  /\ LET ch == Target(cur[p].chs, cur[p].idx)
     IN /\ chans[ch].cap = 0
        /\ Receiver(ch) # 0
        /\ Formatted(ch, Receiver(ch), Deref(cur[p].e))
        /\ sent' = [sent EXCEPT ![ch] = Enqueue(@, Deref(cur[p].e))]
        /\ cur' = Stored([cur EXCEPT ![p].idx = @ + 1], ch, Deref(cur[p].e))
  /\ pc' = AfterSend(p)
  /\ UNCHANGED <<consoles, channels, chans, sink, fieldPool, entryPool, wg,
                 calls, traffic, acked, regLevels, exitStatus, panicked>>

\* faulty variant of WaitReturns: the wait gives up on the last completion
WaitTimesOut(counter) == counter <= 1

\* faulty variant of WaitReturns: the wait never blocks
WaitReturnsAlways(counter) == TRUE

\* e.WG.Wait() returns when the counter is zero
WaitReturns(counter) == counter = 0

\* "e.WG.Wait()" when handlers were found, then "reclaim entry + fields":
\* every field to the field pool, then the entry to the entry pool;
\* HandleEntry returns to the facade method
Reclaim(p) ==
  /\ pc[p] \in {"wait", "reclaim"}
  /\ pc[p] = "wait" => WaitReturns(wg[cur[p].e.addr])
  /\ fieldPool' = FieldPoolPut(fieldPool, cur[p].e.Fields)
  /\ entryPool' = EntryPoolPut(entryPool, cur[p].e.addr)
  /\ pc' = [pc EXCEPT ![p] = cur[p].after]
  /\ cur' = IF cur[p].after = "idle" THEN [cur EXCEPT ![p] = NoCall] ELSE cur
  /\ UNCHANGED <<consoles, channels, chans, workers, fbuf, sink, wg, calls,
                 traffic, sent, acked, regLevels, exitStatus, panicked>>

(***************************************************************************)
(* package console: SetBuffersAndWorkers                                   *)
(***************************************************************************)
WorkersWarning == "Invalid number of workers specified, setting to 1"

\* faulty variant of CorrectedWorkers: the requested number is kept
RequestedWorkers(n) == n

\* "if workers == 0 { ...; workers = 1 }": the value stored in c.numWorkers
CorrectedWorkers(n) == IF n = 0 THEN 1 ELSE n

\* SetBuffersAndWorkers(size, workers) called by p on a console that has not
\* been run: c.buffer = size; with workers == 0, log.Warn(...) first
SetBuffersAndWorkers(p, c, size, n) ==
  /\ pc[p] = "idle"
  /\ Quiescent
  /\ ~traffic
  /\ c \in DOMAIN consoles
  /\ ~consoles[c].ran
  /\ Configured(c)
  /\ IF n = 0
     THEN /\ StartCall(p, WarnLevel, WorkersWarning, <<>>, "setworkers", c)
          /\ consoles' = [consoles EXCEPT ![c].buffer = size,
                                          ![c].req = <<size, n>>]
     ELSE /\ consoles' = [consoles EXCEPT ![c].buffer = size,
                                          ![c].numWorkers = CorrectedWorkers(n),
                                          ![c].req = <<size, n>>]
          /\ UNCHANGED <<channels, chans, workers, fbuf, sink, fieldPool,
                         entryPool, wg, pc, cur, calls, traffic, sent, acked,
                         regLevels, exitStatus, panicked>>

\* "workers = 1; c.numWorkers = workers" once log.Warn has returned
SetWorkers(p) ==
  /\ pc[p] = "setworkers"
  /\ LET c == cur[p].console
     IN consoles' = [consoles EXCEPT ![c].numWorkers =
                                       CorrectedWorkers(consoles[c].req[2])]
  /\ pc' = [pc EXCEPT ![p] = "idle"]
  /\ cur' = [cur EXCEPT ![p] = NoCall]
  /\ UNCHANGED <<channels, chans, workers, fbuf, sink, fieldPool, entryPool,
                 wg, calls, traffic, sent, acked, regLevels, exitStatus,
                 panicked>>

(***************************************************************************)
(* package console: handleLog                                              *)
(***************************************************************************)
\* "for e = range entries": a blocked goroutine takes the head of a buffered
\* channel and formats it
Receive(ch, w) ==
  /\ w = Receiver(ch)
  /\ chans[ch].q # <<>>
  /\ Formatted(ch, w, Head(chans[ch].q))
  /\ chans' = [chans EXCEPT ![ch].q = Tail(@)]
  /\ cur' = Stored(cur, ch, Head(chans[ch].q))
  /\ UNCHANGED <<consoles, channels, sink, fieldPool, entryPool, wg, pc,
                 calls, traffic, sent, acked, regLevels, exitStatus, panicked>>

\* the number of Write calls on the sink of ch that returned an error
WriteErrors(ch) == Cardinality({i \in DOMAIN sink[ch] : sink[ch][i].err})

\* the outcome of the next Write call on the writer of ch: an error or nil
WriteResults(ch) ==
  IF ConsoleOf(ch).writer = "flaky" /\ WriteErrors(ch) < MaxWriteErrors
  THEN {TRUE}
  ELSE {FALSE}

\* faulty variant of AfterWrite: the goroutine returns on a write error
AfterWriteReturnOnError(err) == IF err THEN "done" ELSE NextStep("write")

\* "c.writer.Write(b)" is a statement: its results are discarded and the
\* loop body goes on
AfterWrite(err) == NextStep("write")

\* "c.writer.Write(b)"
Write(ch, w) ==
  /\ workers[ch][w].pc = "write"
  /\ \E err \in WriteResults(ch) :
       /\ sink' = [sink EXCEPT ![ch] =
                     Append(@, [e |-> workers[ch][w].e,
                                b |-> fbuf[ch][FormatterOf(w)],
                                err |-> err])]
       /\ workers' = [workers EXCEPT ![ch][w].pc = AfterWrite(err)]
  /\ UNCHANGED <<consoles, channels, chans, fbuf, fieldPool, entryPool, wg, pc,
                 cur, calls, traffic, sent, acked, regLevels, exitStatus,
                 panicked>>

\* one more Consumed call recorded for entry id
Signal(counts, id) ==
  [i \in DOMAIN counts \cup {id} |->
     IF i = id THEN (IF id \in DOMAIN counts THEN counts[id] ELSE 0) + 1
     ELSE counts[i]]

\* Entry.Consumed(): one completion signal on the barrier of the entry the
\* copy was made from; the iteration ends and the content of b is dead (the
\* Formatter starts with "b = b[0:0]")
Consumed(ch, w) ==
  /\ workers[ch][w].pc = "consumed"
  /\ wg' = [a \in Addrs |-> IF a = workers[ch][w].e.addr THEN wg[a] - 1
                             ELSE wg[a]]
  /\ acked' = [acked EXCEPT ![ch] = Signal(@, workers[ch][w].e.id)]
  /\ workers' = [workers EXCEPT ![ch][w] =
                   [pc |-> NextStep("consumed"), e |-> NoEntry]]
  /\ fbuf' = [fbuf EXCEPT ![ch][FormatterOf(w)] = NoBytes]
  /\ UNCHANGED <<consoles, channels, chans, sink, fieldPool, entryPool, pc,
                 cur, calls, traffic, sent, regLevels, exitStatus, panicked>>

(***************************************************************************)
(* The specification                                                       *)
(***************************************************************************)
Setup ==
  \/ New
  \/ \E c \in DOMAIN consoles : \E levels \in RegLevelSeqs(Len(chans) + 1) :
       RegisterHandler(c, levels)
  \/ \E c \in DOMAIN consoles : \E sw \in BufferWorkerPairs(c) :
       SetBuffersAndWorkers(MainProducer, c, sw[1], sw[2])
  \/ \E p \in Producers : SetWorkers(p)
  \/ \E c \in DOMAIN consoles : \E w \in Writers(c) : SetWriter(c, w)
  \/ \E c \in DOMAIN consoles : \E fn \in FormatFuncs(c) : SetFormatFunc(c, fn)

Facade ==
  \E p \in Producers :
    \/ \E msg \in Msgs :
         \/ Debug(p, msg)
         \/ Info(p, msg)
         \/ Warn(p, msg)
         \/ Error(p, msg)
         \/ Fatal(p, msg)
         \/ Panic(p, msg)
    \/ \E fields \in FieldSeqs : WithFields(p, fields)
    \/ Exit(p)
    \/ RaisePanic(p)

Dispatch ==
  \E p \in Producers :
    \/ SendBuffered(p)
    \/ SendUnbuffered(p)
    \/ Reclaim(p)

Handlers ==
  \E ch \in DOMAIN chans : \E w \in DOMAIN workers[ch] :
    \/ Receive(ch, w)
    \/ Write(ch, w)
    \/ Consumed(ch, w)

\* exitFunc (os.Exit) ends the process: nothing runs after it
Running == exitStatus = NoExit

Next == Running /\ (Setup \/ Facade \/ Dispatch \/ Handlers)

Spec == Init /\ [][Next]_vars

(***************************************************************************)
(* The dispatch under fair scheduling.  The handlers have been set up:     *)
(* MaxHandlers consoles, the first with the defaults of New or tuned with  *)
(* SetBuffersAndWorkers(MaxBuffer, MaxWorkers) and registered for Error    *)
(* and twice for Warn, the others with the defaults and registered for     *)
(* Error.  The producers call Warn and Error.  A goroutine that can run is *)
(* eventually run: as the runtime schedules every runnable goroutine, a    *)
(* step of a producer inside HandleEntry or of a handler goroutine cannot  *)
(* stay possible for ever without one being taken.                         *)
(***************************************************************************)
LiveLevelSeqs(ch) ==
  IF ch = 1 THEN <<ErrorLevel, WarnLevel, WarnLevel>> ELSE <<ErrorLevel>>

LiveBufferWorkerPairs == {<<0, 1>>, <<MaxBuffer, MaxWorkers>>}

\* the consoles after New, SetBuffersAndWorkers(sw) on the first, and Run
LiveConsoles(sw) ==
  [c \in 1..MaxHandlers |->
     [buffer |-> IF c = 1 THEN sw[1] ELSE 0,
      numWorkers |-> IF c = 1 THEN CorrectedWorkers(sw[2]) ELSE 1,
      displayColor |-> TRUE, writer |-> "stderr", formatFunc |-> "default",
      fileDisplay |-> "short", gopath |-> <<>>, ran |-> TRUE,
      req |-> IF c = 1 THEN sw ELSE <<>>]]

\* the routing table after RegisterHandler on the consoles 1..n, in order
RECURSIVE LiveChannels(_)
LiveChannels(n) ==
  IF n = 0 THEN [l \in {} |-> <<>>]
  ELSE RegisterLevels(LiveChannels(n - 1), LiveLevelSeqs(n), n)

LiveInit ==
  \E sw \in LiveBufferWorkerPairs :
    /\ consoles = LiveConsoles(sw)
    /\ channels = LiveChannels(MaxHandlers)
    /\ chans = [ch \in 1..MaxHandlers |-> MakeChan(LiveConsoles(sw)[ch])]
    /\ workers =
         [ch \in 1..MaxHandlers |->
            [w \in 1..NumGoroutines(LiveConsoles(sw)[ch]) |->
               [pc |-> "recv", e |-> NoEntry]]]
    /\ fbuf =
         [ch \in 1..MaxHandlers |->
            [w \in 1..NumGoroutines(LiveConsoles(sw)[ch]) |-> NoBytes]]
    /\ sink = [ch \in 1..MaxHandlers |-> <<>>]
    /\ fieldPool = [f \in FieldVals |-> 0]
    /\ entryPool = [a \in Addrs |-> 0]
    /\ wg = [a \in Addrs |-> 0]
    /\ pc = [p \in Producers |-> "idle"]
    /\ cur = [p \in Producers |-> NoCall]
    /\ calls = [p \in Producers |-> 0]
    /\ traffic = FALSE
    /\ sent = [ch \in 1..MaxHandlers |-> <<>>]
    /\ acked = [ch \in 1..MaxHandlers |-> [id \in {} |-> 0]]
    /\ regLevels = [ch \in 1..MaxHandlers |-> LiveLevelSeqs(ch)]
    /\ exitStatus = NoExit
    /\ panicked = [p \in Producers |-> ""]

LiveFacade == \E p \in Producers : \E msg \in Msgs : Warn(p, msg) \/ Error(p, msg)

LiveNext == LiveFacade \/ Dispatch \/ Handlers

LiveSpec == LiveInit /\ [][LiveNext]_vars /\ WF_vars(Dispatch \/ Handlers)

(***************************************************************************)
(* The formatter on entries of every shape: one console, configured        *)
(* (DisplayColor, SetFilenameDisplay, SetBuffersAndWorkers) and registered *)
(* for every level, and one HandleEntry call about to send its entry.  The *)
(* entry carries the caller's file and line when it was made by a caller   *)
(* that records them.                                                      *)
(***************************************************************************)
FormatFieldSeqs == {<<>>, <<PortField>>, <<PortField, OkField>>}

FormatFiles ==
  {<<>>, <<"a">>, <<"/", "a">>, <<"p", "/", "a">>, <<"/", "p", "/", "a">>,
   <<"a", "/">>, Getenv \o SrcDir \o <<"a">>}

FormatLines == {0, 42}

FormatEntries ==
  {[newEntry(<<MainProducer, 1>>, MainProducer, level, msg, fields)
      EXCEPT !.File = file, !.Line = line] :
     level \in Levels, msg \in Msgs, fields \in FormatFieldSeqs,
     file \in FormatFiles, line \in FormatLines}

FormatConsoles ==
  {[buffer |-> size, numWorkers |-> 1, displayColor |-> color,
    writer |-> "stderr", formatFunc |-> "default", fileDisplay |-> fd,
    gopath |-> RunGopath([fileDisplay |-> fd, gopath |-> <<>>]),
    ran |-> TRUE, req |-> <<>>] :
     size \in {0, MaxBuffer}, color \in BOOLEAN, fd \in {"short", "long"}}

AllLevels ==
  <<DebugLevel, TraceLevel, InfoLevel, NoticeLevel, WarnLevel, ErrorLevel,
    PanicLevel, AlertLevel, FatalLevel>>

FormatInit ==
  \E c \in FormatConsoles : \E e \in FormatEntries :
    \* "file[len(c.gopath):]" needs a file at least as long as c.gopath
    /\ c.fileDisplay = "long" /\ e.Line # 0 => Len(c.gopath) <= Len(e.File)
    /\ consoles = <<c>>
    /\ channels = RegisterLevels([l \in {} |-> <<>>], AllLevels, 1)
    /\ chans = <<MakeChan(c)>>
    /\ workers =
         <<[w \in 1..NumGoroutines(c) |-> [pc |-> "recv", e |-> NoEntry]]>>
    /\ fbuf = <<[w \in 1..NumGoroutines(c) |-> NoBytes]>>
    /\ sink = <<<<>>>>
    /\ fieldPool = [f \in FieldVals |-> 0]
    /\ entryPool = [a \in Addrs |-> 0]
    /\ wg = [a \in Addrs |-> IF a = e.addr THEN WGAdd(0, 1) ELSE 0]
    /\ pc = [p \in Producers |-> IF p = MainProducer THEN "send" ELSE "idle"]
    /\ cur = [p \in Producers |->
                IF p = MainProducer
                THEN [e |-> e, after |-> "idle", chs |-> <<1>>, idx |-> 1,
                      console |-> 0]
                ELSE NoCall]
    /\ calls = [p \in Producers |-> IF p = MainProducer THEN 1 ELSE 0]
    /\ traffic = TRUE
    /\ sent = <<<<>>>>
    /\ acked = <<[id \in {} |-> 0]>>
    /\ regLevels = <<AllLevels>>
    /\ exitStatus = NoExit
    /\ panicked = [p \in Producers |-> ""]

FormatNext == Dispatch \/ Handlers

FormatSpec == FormatInit /\ [][FormatNext]_vars

(***************************************************************************)
(* Auxiliary definitions for the properties                                *)
(***************************************************************************)
Range(seq) == {seq[i] : i \in DOMAIN seq}

\* no element occurs twice in seq
Distinct(seq) == \A i, j \in DOMAIN seq : i # j => seq[i] # seq[j]

\* the number of times x occurs in seq
Occurrences(seq, x) == Cardinality({i \in DOMAIN seq : seq[i] = x})

\* the number of copies of entry id that have entered channel ch
Entered(ch, id) == Cardinality({i \in DOMAIN sent[ch] : sent[ch][i].id = id})

\* the number of lines the goroutines of ch have written for entry id
Written(ch, id) ==
  Cardinality({i \in DOMAIN sink[ch] : sink[ch][i].e.id = id})

\* the number of Consumed calls the goroutines of ch have made for entry id
Acked(ch, id) == IF id \in DOMAIN acked[ch] THEN acked[ch][id] ELSE 0

\* the copies a handler holds: queued in its channel or with a goroutine
\* that has not yet signalled completion
Held(ch) ==
  Range(chans[ch].q)
    \cup {workers[ch][w].e : w \in DOMAIN workers[ch] \ Blocked(ch)}

\* the entry of the last call of producer p
LastId(p) == <<p, calls[p]>>

(***************************************************************************)
(* C1  No premature reclamation: while a handler still holds a copy of an  *)
(* entry (queued, or being formatted or written, not yet signalled), the   *)
(* producer of that entry is still inside HandleEntry before the           *)
(* reclamation, and the entry is not in the entry pool.                    *)
(***************************************************************************)
NoPrematureReclamation ==
  \A ch \in DOMAIN chans : \A e \in Held(ch) :
    /\ pc[e.id[1]] \in {"send", "wait"}
    /\ cur[e.id[1]].e.id = e.id
    /\ entryPool[e.addr] = 0

\* an entry routed to two handlers has been acknowledged by both and
\* reclaimed
ReclaimedAfterAllSignalled ==
  \E p \in Producers : \E ch1, ch2 \in DOMAIN chans :
    /\ ch1 # ch2
    /\ pc[p] = "idle"
    /\ calls[p] > 0
    /\ Acked(ch1, LastId(p)) = 1
    /\ Acked(ch2, LastId(p)) = 1
    /\ \E a \in Addrs : entryPool[a] > 0

(***************************************************************************)
(* C2  Fan-out completeness: a channel registered with distinct levels     *)
(* receives exactly one copy of every dispatched entry whose level is      *)
(* among them, and no copy of an entry at any other level.                 *)
(***************************************************************************)
FanOutComplete ==
  \A ch \in DOMAIN chans :
    Distinct(regLevels[ch]) =>
      /\ \A i \in DOMAIN sent[ch] :
           /\ sent[ch][i].Level \in Range(regLevels[ch])
           /\ Entered(ch, sent[ch][i].id) = 1
      /\ \A p \in Producers :
           /\ pc[p] = "wait" /\ cur[p].e.Level \in Range(regLevels[ch])
                => Entered(ch, cur[p].e.id) = 1
           /\ pc[p] = "reclaim" => cur[p].e.Level \notin Range(regLevels[ch])

\* a handler registered for Info and Error has received exactly an Info and
\* an Error entry, and the two dispatches have returned
InfoAndErrorDelivered ==
  \E ch \in DOMAIN chans :
    /\ regLevels[ch] = <<InfoLevel, ErrorLevel>>
    /\ Len(sent[ch]) = 2
    /\ {sent[ch][i].Level : i \in DOMAIN sent[ch]} = {InfoLevel, ErrorLevel}
    /\ Quiescent

(***************************************************************************)
(* C3  Drop on no listener: a HandleEntry whose level has no registered    *)
(* handler sends on no channel and does not wait on the barrier (its next  *)
(* step is the reclamation, which is enabled), and that step puts every    *)
(* field of the entry in the field pool and the entry in the entry pool,   *)
(* once each, and touches no channel and no barrier.                       *)
(***************************************************************************)
DropOnNoListener ==
  /\ [](\A p \in Producers :
          InHandleEntry(p) /\ cur[p].e.Level \notin DOMAIN channels =>
            /\ pc[p] = "reclaim"
            /\ \A ch \in DOMAIN chans : Entered(ch, cur[p].e.id) = 0
            /\ entryPool[cur[p].e.addr] = 0
            /\ ENABLED Reclaim(p))
  /\ [][\A p \in Producers :
          pc[p] = "reclaim" /\ pc'[p] # "reclaim" =>
            /\ \A f \in FieldVals :
                 fieldPool'[f] = fieldPool[f] + Occurrences(cur[p].e.Fields, f)
            /\ entryPool' = [entryPool EXCEPT ![cur[p].e.addr] = 1]
            /\ UNCHANGED <<chans, sent, wg, workers>>]_vars

\* an Info entry with two fields was dispatched with no handler registered
\* for Info, and its fields and the entry are back in the pools
NoListenerReclaimed ==
  \E p \in Producers :
    /\ pc[p] = "idle"
    /\ calls[p] > 0
    /\ InfoLevel \notin DOMAIN channels
    /\ fieldPool[PortField] = 1
    /\ fieldPool[OkField] = 1
    /\ \E a \in Addrs : entryPool[a] = 1

\* the HandleEntry call that dispatched entry id has returned
Returned(id) == ~(InHandleEntry(id[1]) /\ cur[id[1]].e.id = id)

(***************************************************************************)
(* C4  Fatal ordering: when Fatal / Fatalf reaches exitFunc, the Fatal     *)
(* entry has entered every channel registered for the Fatal level (as many *)
(* times as the channel is listed) and every copy has been acknowledged;   *)
(* the status handed to exitFunc is not zero.                              *)
(***************************************************************************)
FatalOrdering ==
  /\ exitStatus # NoExit =>
       exitStatus[1] # 0 /\ \E p \in Producers : pc[p] = "exited"
  /\ \A p \in Producers :
       pc[p] \in {"exit", "exited"} =>
         /\ cur[p].e.Level = FatalLevel
         /\ \A ch \in DOMAIN chans :
              LET k == Occurrences(Lookup(FatalLevel).channels, ch)
              IN Entered(ch, cur[p].e.id) = k /\ Acked(ch, cur[p].e.id) = k

\* the process has exited after a Fatal entry was acknowledged by two
\* handlers
FatalExited ==
  \E p \in Producers : \E ch1, ch2 \in DOMAIN chans :
    /\ ch1 # ch2
    /\ pc[p] = "exited"
    /\ exitStatus = <<1>>
    /\ Acked(ch1, cur[p].e.id) = 1
    /\ Acked(ch2, cur[p].e.id) = 1

(***************************************************************************)
(* C5  Panic ordering: the entry of Panic / Panicf is an Error entry; when *)
(* the panic is raised the entry has entered exactly the channels          *)
(* registered for Error (not those registered for Panic only) and every    *)
(* copy has been acknowledged; the panic carries the message.              *)
(***************************************************************************)
PanicOrdering ==
  \A p \in Producers :
    pc[p] \in {"panic", "panicked"} =>
      /\ cur[p].e.Level = ErrorLevel
      /\ \A ch \in DOMAIN chans :
           LET k == Occurrences(Lookup(ErrorLevel).channels, ch)
           IN Entered(ch, cur[p].e.id) = k /\ Acked(ch, cur[p].e.id) = k
      /\ pc[p] = "panicked" => panicked[p] = cur[p].e.Message

\* a panic has been raised after its entry was acknowledged by the handler
\* registered for Error, while the handler registered for Panic and not for
\* Error received nothing
PanicRaised ==
  \E p \in Producers : \E ch1, ch2 \in DOMAIN chans :
    /\ pc[p] = "panicked"
    /\ panicked[p] = "started"
    /\ PanicLevel \in Range(regLevels[ch1])
    /\ ErrorLevel \notin Range(regLevels[ch1])
    /\ Entered(ch1, cur[p].e.id) = 0
    /\ Acked(ch2, cur[p].e.id) = 1

(***************************************************************************)
(* C6  Multi-worker throughput safety: every line written to the sink is   *)
(* the formatted line of the entry the writing goroutine received, and     *)
(* once the HandleEntry call of an entry has returned, each channel has    *)
(* written one line per copy it received; when all calls have returned,    *)
(* the sink of a channel holds as many lines as entries entered it.        *)
(***************************************************************************)
ThroughputSafety ==
  \A ch \in DOMAIN chans :
    /\ \A i \in DOMAIN sink[ch] :
         sink[ch][i].b = Format(ConsoleOf(ch), sink[ch][i].e)
    /\ \A i \in DOMAIN sent[ch] :
         Returned(sent[ch][i].id) =>
           Written(ch, sent[ch][i].id) = Entered(ch, sent[ch][i].id)
    /\ Quiescent => Len(sink[ch]) = Len(sent[ch])

\* a console configured with more than one worker has written the lines of
\* two entries of two producers, in the opposite order of their entering
\* the channel, and both calls have returned
TwoProducersManyWorkers ==
  \E ch \in DOMAIN chans :
    /\ ConsoleOf(ch).numWorkers > 1
    /\ Quiescent
    /\ Len(sink[ch]) = 2
    /\ Len(sent[ch]) = 2
    /\ sent[ch][1].id[1] # sent[ch][2].id[1]
    /\ sink[ch][1].e.id = sent[ch][2].id

(***************************************************************************)
(* C7  Handler contract of the console worker: a copy is acknowledged at   *)
(* most once and only after its line has been written; when HandleEntry    *)
(* has returned, every channel has written and acknowledged every copy it  *)
(* received of that entry.                                                 *)
(***************************************************************************)
ConsumedAfterWrite ==
  \A ch \in DOMAIN chans :
    /\ \A id \in DOMAIN acked[ch] :
         /\ acked[ch][id] <= Written(ch, id)
         /\ acked[ch][id] <= Entered(ch, id)
    /\ \A i \in DOMAIN sent[ch] :
         Returned(sent[ch][i].id) =>
           /\ Acked(ch, sent[ch][i].id) = Entered(ch, sent[ch][i].id)
           /\ Written(ch, sent[ch][i].id) = Acked(ch, sent[ch][i].id)

\* a goroutine has written the line of an entry and not yet acknowledged it,
\* while its channel has already written and acknowledged an entry whose
\* call has returned
WrittenThenConsumed ==
  \E ch \in DOMAIN chans : \E w \in DOMAIN workers[ch] : \E p \in Producers :
    /\ workers[ch][w].pc = "consumed"
    /\ Written(ch, workers[ch][w].e.id) = 1
    /\ Acked(ch, workers[ch][w].e.id) = 0
    /\ pc[p] = "idle"
    /\ calls[p] > 0
    /\ Acked(ch, LastId(p)) = 1

SingleWorkerWriteOrder ==
  \A ch \in DOMAIN chans :
    ConsoleOf(ch).numWorkers = 1 =>
      \A i \in DOMAIN sink[ch] : sink[ch][i].e.id = sent[ch][i].id

(***************************************************************************)
(* C10  Run makes one channel with the configured buffer size and starts   *)
(* exactly numWorkers goroutines on it, each with its own Formatter.       *)
(***************************************************************************)
RunStartsConfiguredWorkers ==
  \A ch \in DOMAIN chans :
    /\ chans[ch].cap = ConsoleOf(ch).buffer
    /\ Cardinality(DOMAIN workers[ch]) = ConsoleOf(ch).numWorkers
    /\ \A v, w \in DOMAIN workers[ch] :
         v # w => FormatterOf(v) # FormatterOf(w)

\* the producers inside the log.Warn call of SetBuffersAndWorkers on
\* console c, or between its return and "c.numWorkers = workers"
Warning(c) ==
  {p \in Producers : cur[p].after = "setworkers" /\ cur[p].console = c}

(***************************************************************************)
(* C11  Zero-worker misconfiguration: SetBuffersAndWorkers(size, 0) sets   *)
(* the buffer to size, dispatches one Warn entry with the diagnostic       *)
(* message through the facade, then sets the worker count to 1 (that last  *)
(* step is enabled as soon as the dispatch has returned); it never exits   *)
(* or panics.  With workers > 0 the count is the requested value and no    *)
(* entry is dispatched.                                                    *)
(***************************************************************************)
ZeroWorkersCorrected ==
  /\ [](\A c \in DOMAIN consoles :
          consoles[c].req # <<>> =>
            /\ consoles[c].buffer = consoles[c].req[1]
            /\ consoles[c].req[2] > 0 =>
                 consoles[c].numWorkers = consoles[c].req[2] /\ Warning(c) = {}
            /\ consoles[c].req[2] = 0 =>
                 /\ Warning(c) = {} => consoles[c].numWorkers = 1
                 /\ \A p \in Warning(c) :
                      /\ cur[p].e.Level = WarnLevel
                      /\ cur[p].e.Message = WorkersWarning
                      /\ InHandleEntry(p) \/ pc[p] = "setworkers"
                      /\ pc[p] = "setworkers" => ENABLED SetWorkers(p)
            /\ ~traffic =>
                 exitStatus = NoExit /\ \A p \in Producers : panicked[p] = "")
  /\ [][\A c \in DOMAIN consoles :
          consoles'[c].req # consoles[c].req =>
            IF consoles'[c].req[2] > 0
            THEN calls' = calls /\ cur' = cur /\ sent' = sent
            ELSE \E p \in Producers :
                   /\ calls'[p] = calls[p] + 1
                   /\ cur'[p].e.Level = WarnLevel
                   /\ Warning(c)' = {p}]_vars

\* a console asked for zero workers has the requested buffer size and one
\* worker, and the warning has been written and acknowledged by a handler
\* registered for the Warn level
ZeroWorkersWarned ==
  \E c \in DOMAIN consoles : \E ch \in DOMAIN chans :
    /\ consoles[c].req # <<>>
    /\ consoles[c].req[2] = 0
    /\ consoles[c].req[1] > 0
    /\ consoles[c].buffer = consoles[c].req[1]
    /\ consoles[c].numWorkers = 1
    /\ Warning(c) = {}
    /\ \E i \in DOMAIN sink[ch] :
         /\ sink[ch][i].e.Message = WorkersWarning
         /\ Acked(ch, sink[ch][i].e.id) > 0

\* the goroutines of ch that have written the line of entry id and have not
\* yet called e.Consumed()
Signalling(ch, id) ==
  {w \in DOMAIN workers[ch] :
     workers[ch][w].pc = "consumed" /\ workers[ch][w].e.id = id}

(***************************************************************************)
(* C12  Sink write failure is not surfaced: whatever Write returns, the    *)
(* goroutine goes on to e.Consumed() and to the next receive, so every     *)
(* Write call for an entry is either acknowledged or about to be (the      *)
(* acknowledgement is enabled); once the HandleEntry call of an entry that *)
(* met a write error has returned, every copy is acknowledged.             *)
(***************************************************************************)
WriteErrorNotSurfaced ==
  \A ch \in DOMAIN chans :
    /\ \A w \in DOMAIN workers[ch] :
         /\ workers[ch][w].pc \in {"recv", "write", "consumed"}
         /\ workers[ch][w].pc = "consumed" => ENABLED Consumed(ch, w)
    /\ \A i \in DOMAIN sink[ch] :
         LET id == sink[ch][i].e.id
         IN /\ Written(ch, id) =
                 Acked(ch, id) + Cardinality(Signalling(ch, id))
            /\ sink[ch][i].err /\ Returned(id) =>
                 Acked(ch, id) = Entered(ch, id)

\* a Write call of a channel returned an error, the call that dispatched the
\* entry has returned, and the goroutines of the same channel have then
\* called Write for a later entry, whose call has returned too
WriteErrorThenNextEntry ==
  \E ch \in DOMAIN chans : \E i, j \in DOMAIN sink[ch] :
    /\ i < j
    /\ sink[ch][i].err
    /\ sink[ch][i].e.id # sink[ch][j].e.id
    /\ Acked(ch, sink[ch][i].e.id) = Entered(ch, sink[ch][i].e.id)
    /\ Acked(ch, sink[ch][j].e.id) = Entered(ch, sink[ch][j].e.id)
    /\ Quiescent
    /\ \A p \in Producers : pc[p] = "idle"

\* the entry and the bytes of the goroutines of ch whose Formatter has
\* returned and that have not yet written
Lines(ch) ==
  {[e |-> workers[ch][w].e, b |-> fbuf[ch][FormatterOf(w)]] :
     w \in {v \in DOMAIN workers[ch] : workers[ch][v].pc = "write"}}

\* the entry of the reference case and its expected line, byte for byte
ReferenceEntry ==
  [newEntry(<<MainProducer, 1>>, MainProducer, InfoLevel, "started",
            <<PortField>>) EXCEPT !.File = <<>>, !.Line = 0]

ReferenceLine ==
  <<"T", " ", "INFO", " ", " ", " ", "started", " ", "port", "=",
    "8", "0", "8", "0", "\n">>

(***************************************************************************)
(* C13  Plain-format reference output: the non-colored formatter turns the *)
(* reference entry into the timestamp, a space, "INFO" followed by two     *)
(* spaces, a space, "started", " port=8080" and a newline; for every entry *)
(* without location the level name comes right after the timestamp and its *)
(* space, and the padding spaces that bring it to width 6 come after it.   *)
(***************************************************************************)
PlainLevelPaddedAfter ==
  \A ch \in DOMAIN chans : \A l \in Lines(ch) :
    ~ConsoleOf(ch).displayColor /\ l.e.Line = 0 =>
      LET lvl == LevelString(l.e.Level)
      IN /\ l.e = ReferenceEntry => l.b = ReferenceLine
         /\ l.b[1] = l.e.Timestamp
         /\ l.b[2] = " "
         /\ l.b[3] = lvl
         /\ \A i \in 1..(6 - Len(lvl)) : l.b[3 + i] = " "
         /\ l.b[3 + (6 - Len(lvl)) + 1] = " "
         /\ l.b[3 + (6 - Len(lvl)) + 2] = l.e.Message

\* the last path segment of file: what follows its last '/', the whole of
\* it when it holds none
LastSegment(file) ==
  LET slashes == {k \in 1..Len(file) : file[k] = "/"}
  IN IF slashes = {} THEN file
     ELSE LET k == CHOOSE i \in slashes : \A j \in slashes : j <= i
          IN SubSeq(file, k + 1, Len(file))

(***************************************************************************)
(* C18  Short file display: for an entry with Line != 0 formatted with     *)
(* Lshortfile, colored or plain, the file part of the location is the last *)
(* path segment of File, whatever File is.                                 *)
(***************************************************************************)
ShortFileIsLastSegment ==
  \A ch \in DOMAIN chans : \A l \in Lines(ch) :
    ConsoleOf(ch).fileDisplay = "short" /\ l.e.Line # 0 =>
      l.b = FormatLine(ConsoleOf(ch).displayColor, l.e, LastSegment(l.e.File))

\* the entry of producer p as newEntry built it
AsBuilt(p) ==
  newEntry(cur[p].e.id, cur[p].e.addr, cur[p].e.Level, cur[p].e.Message,
           cur[p].e.Fields)

\* the Entry a handler reads when it reads x: x itself, or what it points to
View(x) == IF x.ptr THEN cur[x.id[1]].e ELSE x

(***************************************************************************)
(* C14  Copy-per-handler isolation: a Formatter that overwrites the File   *)
(* of the entry it is handed changes the copy of its own goroutine only:   *)
(* the entry of the producer stays as newEntry built it until it is        *)
(* reclaimed, every copy sent is a copy of that, the copies queued or held *)
(* by the goroutines of the other handlers are equal to it, and the copy   *)
(* of the overwriting handler differs from it in File only.                *)
(***************************************************************************)
CopyIsolation ==
  /\ \A p \in Producers : InHandleEntry(p) => cur[p].e = AsBuilt(p)
  /\ \A ch \in DOMAIN chans :
       /\ \A i \in DOMAIN sent[ch] :
            ~Returned(sent[ch][i].id) =>
              View(sent[ch][i]) = cur[sent[ch][i].id[1]].e
       /\ \A i \in DOMAIN chans[ch].q :
            View(chans[ch].q[i]) = cur[chans[ch].q[i].id[1]].e
       /\ \A w \in DOMAIN workers[ch] \ Blocked(ch) :
            LET x == View(workers[ch][w].e)
                orig == cur[x.id[1]].e
            IN IF ConsoleOf(ch).formatFunc = "custom"
               THEN x = [orig EXCEPT !.File = CustomFile]
               ELSE x = orig

\* a goroutine of a handler has overwritten the File of its copy of an entry
\* while a goroutine of another handler holds a copy of the same entry with
\* the File of the original
MutatedCopyBesideIntactCopy ==
  \E ch1, ch2 \in DOMAIN chans :
    \E w1 \in DOMAIN workers[ch1] \ Blocked(ch1) :
      \E w2 \in DOMAIN workers[ch2] \ Blocked(ch2) :
        /\ ch1 # ch2
        /\ workers[ch1][w1].e.id = workers[ch2][w2].e.id
        /\ workers[ch1][w1].e.File = CustomFile
        /\ workers[ch2][w2].e.File # CustomFile
        /\ workers[ch2][w2].e.File = cur[workers[ch2][w2].e.id[1]].e.File

\* the routing list of level l in table, empty when the level has none
ListOf(table, l) == IF l \in DOMAIN table THEN table[l] ELSE <<>>

\* seq followed by n times x
RECURSIVE Repeated(_, _, _)
Repeated(seq, x, n) ==
  IF n = 0 THEN seq ELSE Repeated(Append(seq, x), x, n - 1)

(***************************************************************************)
(* C15  RegisterHandler runs the handler once, whatever the number of      *)
(* levels (one new channel with its goroutines, also for no level), and    *)
(* puts the new channel at the end of the routing list of every level it   *)
(* is given, once per time the level is named; the lists of the other      *)
(* levels are unchanged.  No step of the program changes the routing table *)
(* otherwise: every list keeps its elements, in their order.               *)
(***************************************************************************)
RegisterHandlerFrame ==
  [][/\ \A l \in DOMAIN channels :
          /\ l \in DOMAIN channels'
          /\ Len(channels[l]) <= Len(channels'[l])
          /\ SubSeq(channels'[l], 1, Len(channels[l])) = channels[l]
     /\ channels' # channels => regLevels' # regLevels
     /\ regLevels' # regLevels =>
          /\ Len(regLevels') = Len(regLevels) + 1
          /\ Len(chans') = Len(chans) + 1
          /\ Len(workers') = Len(workers) + 1
          /\ LET ch == Len(chans')
                 levels == regLevels'[ch]
             IN /\ DOMAIN channels' = DOMAIN channels \cup Range(levels)
                /\ \A l \in Levels :
                     ListOf(channels', l) =
                       Repeated(ListOf(channels, l), ch,
                                Occurrences(levels, l))]_vars

\* a handler registered for no level has been run and is in no routing
\* list, beside a handler that is in the lists of its levels
RegisteredForNoLevel ==
  \E ch1, ch2 \in DOMAIN chans :
    /\ regLevels[ch2] = <<>>
    /\ DOMAIN workers[ch2] # {}
    /\ \A l \in DOMAIN channels : ch2 \notin Range(channels[l])
    /\ regLevels[ch1] # <<>>
    /\ \A i \in DOMAIN regLevels[ch1] :
         ch1 \in Range(channels[regLevels[ch1][i]])

\* a send on channel ch cannot complete now: its buffer is full, or it has
\* none and no goroutine is waiting to receive
NoRoom(ch) ==
  IF chans[ch].cap = 0 THEN Receiver(ch) = 0
  ELSE Len(chans[ch].q) = chans[ch].cap

(***************************************************************************)
(* C16  Send order within one HandleEntry call: the copies enter the       *)
(* channels in the order of the routing list of the level, one send at a   *)
(* time: before the i-th send the entry has entered exactly the first i-1  *)
(* channels of the list, and while the channel of the i-th send has no     *)
(* room the producer can take no step, so that the later handlers of the   *)
(* list are not served.                                                    *)
(***************************************************************************)
SendsInRoutingOrder ==
  /\ [](\A p \in Producers :
          pc[p] = "send" =>
            LET chs == cur[p].chs
                k == cur[p].idx
            IN /\ chs = Lookup(cur[p].e.Level).channels
               /\ k \in 1..Len(chs)
               /\ \A ch \in DOMAIN chans :
                    Entered(ch, cur[p].e.id) =
                      Occurrences(SubSeq(chs, 1, k - 1), ch)
               /\ NoRoom(chs[k]) =>
                    /\ ~ENABLED SendBuffered(p)
                    /\ ~ENABLED SendUnbuffered(p)
                    /\ ~ENABLED Reclaim(p))
  /\ [][\A p \in Producers :
          pc[p] = "send" /\ cur'[p] # cur[p] =>
            LET ch == cur[p].chs[cur[p].idx]
            IN /\ cur'[p].idx = cur[p].idx + 1
               /\ sent'[ch] = Append(sent[ch], cur[p].e)
               /\ \A c \in DOMAIN chans \ {ch} : sent'[c] = sent[c]]_vars

\* a producer is blocked on the channel of the first handler of its level,
\* which has no room, while the second handler of the level has a goroutine
\* waiting to receive and has not been sent the entry
LaterHandlerDelayed ==
  \E p \in Producers :
    /\ pc[p] = "send"
    /\ cur[p].idx = 1
    /\ Len(cur[p].chs) > 1
    /\ cur[p].chs[1] # cur[p].chs[2]
    /\ NoRoom(cur[p].chs[1])
    /\ ~NoRoom(cur[p].chs[2])
    /\ Entered(cur[p].chs[2], cur[p].e.id) = 0

\* the number of Consumed calls made for entry id by the goroutines of
\* channels 1..n
RECURSIVE AckedBy(_, _)
AckedBy(id, n) == IF n = 0 THEN 0 ELSE Acked(n, id) + AckedBy(id, n - 1)

(***************************************************************************)
(* C17  No timeout on the barrier: a producer waiting on the barrier of an *)
(* entry with a completion outstanding can take no step, and stays there   *)
(* as long as no handler signals; HandleEntry never returns with a copy    *)
(* unacknowledged; a producer sending to a channel without room can take   *)
(* no step either, whatever the reason the handler does not receive.       *)
(***************************************************************************)
NoTimeoutOnBarrier ==
  /\ [](\A p \in Producers :
          /\ pc[p] = "wait" /\ wg[cur[p].e.addr] > 0 => ~ENABLED Reclaim(p)
          /\ pc[p] = "wait" =>
               wg[cur[p].e.addr] =
                 Len(cur[p].chs) - AckedBy(cur[p].e.id, Len(chans))
          /\ pc[p] = "send" /\ NoRoom(cur[p].chs[cur[p].idx]) =>
               ~ENABLED SendBuffered(p) /\ ~ENABLED SendUnbuffered(p))
  /\ [][\A p \in Producers :
          /\ pc[p] = "wait" /\ wg[cur[p].e.addr] > 0 /\ acked' = acked =>
               /\ pc'[p] = "wait"
               /\ cur'[p] = cur[p]
               /\ entryPool'[cur[p].e.addr] = entryPool[cur[p].e.addr]
          /\ pc[p] = "wait" /\ pc'[p] # "wait" =>
               \A ch \in DOMAIN chans :
                 Acked(ch, cur[p].e.id) = Occurrences(cur[p].chs, ch)]_vars

\* a producer waits on the barrier of an entry a goroutine has received and
\* not acknowledged, and another producer is blocked sending to the channel
\* of that goroutine, which has no room
BlockedBehindUnacknowledged ==
  \E p, q \in Producers : \E ch \in DOMAIN chans :
    /\ p # q
    /\ pc[p] = "wait"
    /\ wg[cur[p].e.addr] > 0
    /\ \E w \in DOMAIN workers[ch] : workers[ch][w].e.id = cur[p].e.id
    /\ pc[q] = "send"
    /\ cur[q].chs[cur[q].idx] = ch
    /\ NoRoom(ch)

\* the number of copies the producers inside HandleEntry have to send to
\* channel ch, over producers 1..n
RECURSIVE Owed(_, _)
Owed(ch, n) ==
  IF n = 0 THEN 0
  ELSE (IF InHandleEntry(n) THEN Occurrences(cur[n].chs, ch) ELSE 0)
         + Owed(ch, n - 1)

(***************************************************************************)
(* C20  At most one event in flight per producer: the copies a handler     *)
(* holds (queued, or received and not acknowledged) are copies of the      *)
(* entries of the HandleEntry calls in progress, so their number is at     *)
(* most the number of producers inside HandleEntry, each counted as many   *)
(* times as the channel is in its routing list, whatever the buffer size.  *)
(***************************************************************************)
OneEventInFlight ==
  \A ch \in DOMAIN chans :
    /\ Len(chans[ch].q) + Cardinality(DOMAIN workers[ch] \ Blocked(ch))
         <= Owed(ch, NumProducers)
    /\ \A e \in Held(ch) : InHandleEntry(e.id[1]) /\ e.id = LastId(e.id[1])
    /\ \A p \in Producers :
         Cardinality({i \in DOMAIN sent[ch] :
                        sent[ch][i].id[1] = p
                          /\ Acked(ch, sent[ch][i].id)
                               < Entered(ch, sent[ch][i].id)})
           <= Occurrences(cur[p].chs, ch)

\* a channel with a buffer holds a queued entry and an entry being
\* processed, of two producers that are both inside HandleEntry
TwoEventsOfTwoProducers ==
  \E ch \in DOMAIN chans : \E w \in DOMAIN workers[ch] :
    /\ chans[ch].cap > 0
    /\ Len(chans[ch].q) = 1
    /\ workers[ch][w].pc # "recv"
    /\ workers[ch][w].e.id[1] # chans[ch].q[1].id[1]
    /\ \A p \in Producers : InHandleEntry(p)

(***************************************************************************)
(* C19  Deadlock freedom of dispatch: with the handlers registered before  *)
(* the traffic, whatever the number of producers, of handlers of a level,  *)
(* the buffer size and the number of workers, while a producer is inside   *)
(* HandleEntry some producer or handler goroutine can take a step, and     *)
(* under fair scheduling every HandleEntry call returns.                   *)
(***************************************************************************)
DispatchDeadlockFree ==
  /\ []((\E p \in Producers : InHandleEntry(p)) =>
          ENABLED (Dispatch \/ Handlers))
  /\ \A p \in Producers : InHandleEntry(p) ~> ~InHandleEntry(p)

\* two producers are inside HandleEntry, one blocked on the first channel
\* of a level with two handlers, which has no room, the other waiting on
\* the barrier of the entry that a goroutine of that channel holds
BlockedBehindWaiting ==
  \E p, q \in Producers :
    /\ p # q
    /\ pc[p] = "send"
    /\ cur[p].idx = 1
    /\ Len(cur[p].chs) > 1
    /\ NoRoom(cur[p].chs[1])
    /\ pc[q] = "wait"
    /\ \E w \in DOMAIN workers[cur[p].chs[1]] :
         workers[cur[p].chs[1]][w].e.id = cur[q].e.id
====
